---- MODULE Spec2Model ----
(***************************************************************************)
(* Model of core/remotes/docker/httpreadseeker.go: the httpReadSeeker, a   *)
(* resumable, seekable reader over connections obtained from an injected   *)
(* opener  open(offset) -> (io.ReadCloser, error).                         *)
(*                                                                         *)
(* The remote blob is the byte sequence Blob.  A connection opened at      *)
(* offset o streams Blob[o..]; every underlying read may deliver fewer     *)
(* bytes than asked, end cleanly (io.EOF) once the stream is exhausted,    *)
(* break before it is exhausted (io.ErrUnexpectedEOF) or fail otherwise.   *)
(* A reader is constructed with the blob's length as its size or with the  *)
(* size unknown (-1), and with or without an opener.                       *)
(***************************************************************************)
EXTENDS Integers, Sequences, FiniteSets, TLC

\* ---------------------------------------------------------------- bounds
BlobLen  == 2      \* length of the remote blob
MaxBuf   == 2      \* largest caller buffer len(p)
MaxOff   == 3      \* largest absolute position a Seek asks for
MaxConns == 4      \* connections the opener hands out in one behaviour
MaxStall == 4      \* cap on errsWithNoProgress
MaxCallers == 2    \* goroutines calling ReadAt at the same time

\* ------------------------------------------------------- program constants
maxRetry    == 3
UnknownSize == -1
SeekStart   == 0
SeekCurrent == 1
SeekEnd     == 2
NilRc       == 0     \* hrs.rc == nil
NopRc       == -1    \* hrs.rc is the io.NopCloser over an empty bytes.Reader

\* error values
Nil   == "nil"
EOF   == "io.EOF"
UEOF  == "io.ErrUnexpectedEOF"
Other == "other"                      \* any other error of the connection
ErrUnavailable     == "ErrUnavailable"
ErrInvalidArgument == "ErrInvalidArgument"
ErrNotImplemented  == "ErrNotImplemented"
OpenFailure        == "open failed"   \* the opener's error, wrapped
CloseFailure       == "close failed"  \* error of rc.Close()
StreamErrs == {Nil, EOF, UEOF, Other}

Min(a, b) == IF a < b THEN a ELSE b

\* the blob's bytes; byte at absolute position p is Blob[p + 1]
Blob == [i \in 1..BlobLen |-> 10 + i]

VARIABLES
  size,                \* hrs.size  (UnknownSize or the blob's length)
  open,                \* hrs.open # nil
  offset,              \* hrs.offset
  rc,                  \* hrs.rc : NilRc, NopRc or the index of a connection
  closed,              \* hrs.closed
  errsWithNoProgress,  \* hrs.errsWithNoProgress
  conns,               \* every connection the opener returned, in order
  last,                \* what the last call did and returned
  run,                 \* length of the current run of zero-progress truncated Reads
  runRe,               \* opener calls made for reconnect in that run
  stalls,              \* consecutive zero-progress truncations of the transport
  got,                 \* bytes a sequential caller has received
  pc,                  \* the sequential caller: "idle", "reading", "done"
  stallsHere,          \* zero-progress truncations seen at the current offset
  calls,               \* the ReadAt call of each concurrent caller
  pconns               \* connections the opener returned to ReadAt calls

hrsVars    == <<size, open, offset, rc, closed, errsWithNoProgress>>
callerVars == <<stalls, got, pc>>
auxVars    == <<stallsHere, calls, pconns>>
vars == <<size, open, offset, rc, closed, errsWithNoProgress, conns, last,
          run, runRe, stalls, got, pc, stallsHere, calls, pconns>>

Callers == 1..MaxCallers

\* a caller that has not called ReadAt yet
IdleCall ==
  [pc |-> "idle", L |-> 0, off |-> 0, n |-> 0, err |-> Nil, uerr |-> Nil,
   data |-> <<>>, conn |-> 0, opens |-> <<>>]

\* a connection returned by open(start): the bytes taken from it and the
\* Close calls made on it
NewConn(start) == [start |-> start, pos |-> 0, closes |-> 0]

\* bytes a connection can still deliver
Avail(c) ==
  LET r == BlobLen - (c.start + c.pos) IN IF r > 0 THEN r ELSE 0

\* the next k bytes of a connection
Bytes(c, k) == SubSeq(Blob, c.start + c.pos + 1, c.start + c.pos + k)

\* outcomes (n, e) of one rd.Read(p) with len(p) = L on stream id
CanReturn(id, cs, L, n, e) ==
  IF id = NopRc THEN n = 0 /\ e = EOF
  ELSE IF cs[id].closes > 0 THEN n = 0 /\ e = Other
  ELSE /\ n \in 0..Min(L, Avail(cs[id]))
       /\ e \in StreamErrs
       /\ (e = EOF  => n = Avail(cs[id]))
       /\ (e = UEOF => n < Avail(cs[id]))

StreamData(id, cs, n) == IF id > 0 THEN Bytes(cs[id], n) ELSE <<>>

Advance(cs, id, n) == IF id > 0 THEN [cs EXCEPT ![id].pos = @ + n] ELSE cs

\* c.Close() on a connection the reader then drops (hrs.rc = nil): it
\* delivers nothing more and its position is no longer tracked
closeConn(c) == [start |-> 0, pos |-> 0, closes |-> c.closes + 1]

\* no connection is ever closed
closeRc_Leak(cs, id) == cs

\* hrs.rc.Close() under "if hrs.rc != nil", followed by hrs.rc = nil
closeRc(cs, id) == IF id > 0 THEN [cs EXCEPT ![id] = closeConn(@)] ELSE cs

\* Close, lines 99-100: hrs.rc.Close() on the connection hrs.rc keeps naming
closeHeld(cs, id) == IF id > 0 THEN [cs EXCEPT ![id].closes = @ + 1] ELSE cs

ClosedBy(id) == IF id > 0 THEN {id} ELSE {}

\* a connection is opened at the very end of a blob of known size too
NeedsOpen_Inclusive(sz, off) == sz = UnknownSize \/ off <= sz

\* reader(): line 180, whether a connection is opened for this offset
NeedsOpen(sz, off) == sz = UnknownSize \/ off < sz

\* reader() on a reader whose rc is h_rc and offset is h_off; ok: the opener
\* succeeds.  opens: the offsets passed to the opener.
reader(h_rc, h_off, cs, ok) ==
  IF h_rc # NilRc
  THEN [rc |-> h_rc, conns |-> cs, err |-> Nil, opens |-> <<>>]
  ELSE IF NeedsOpen(size, h_off)
  THEN IF ~open
       THEN [rc |-> NilRc, conns |-> cs, err |-> ErrNotImplemented, opens |-> <<>>]
       ELSE IF ~ok
       THEN [rc |-> NilRc, conns |-> cs, err |-> OpenFailure, opens |-> <<h_off>>]
       ELSE [rc |-> Len(cs) + 1, conns |-> Append(cs, NewConn(h_off)),
             err |-> Nil, opens |-> <<h_off>>]
  ELSE [rc |-> NopRc, conns |-> cs, err |-> Nil, opens |-> <<>>]

\* the cursor is not advanced by the bytes read
AddOffset_Forgotten(off, n) == off

\* Read, line 58: hrs.offset += int64(n)
AddOffset(off, n) == off + n

\* the exhausted connection is kept
releaseOnEOF_Kept(cs, id) == [rc |-> id, conns |-> cs]

\* Read, lines 84-89: on io.EOF the held connection is closed and dropped
releaseOnEOF(cs, id) == [rc |-> NilRc, conns |-> closeRc(cs, id)]

\* the counter is cleared only by a read that returns bytes and no error
Progress_Strict(n, e) == n > 0 /\ e = Nil

\* only bytes count as progress
Progress_BytesOnly(n, e) == n > 0

\* nothing clears the counter
Progress_Never(n, e) == FALSE

\* Read, line 59: this attempt counts as progress
Progress(n, e) == n > 0 \/ e = Nil

\* the bound compared with >= : the third stalled call already gives up
TooManyRetries_OffByOne(c) == c >= maxRetry

\* Read, line 67: too many retries for this offset with no progress
TooManyRetries(c) == c > maxRetry

\* the opener's error is returned when the reconnect fails
reconnectErr_Opener(err2) == err2

\* Read, lines 77-79 and 91: the error returned after the reconnect attempt,
\* err2 being the error of the second reader()
reconnectErr(err2) == IF err2 = Nil THEN Nil ELSE UEOF

\* the record kept of the last call
NoCall ==
  [op |-> "none", L |-> 0, arg |-> 0, whence |-> 0, n |-> 0, err |-> Nil,
   data |-> <<>>, ret |-> 0, opens |-> <<>>, reconn |-> 0, reopen |-> "none",
   uerr |-> "none", rd |-> NilRc, closedIds |-> {}, privCloses |-> 0,
   off0 |-> 0, rc0 |-> NilRc, errs0 |-> 0, closed0 |-> FALSE]

Call(name) ==
  [NoCall EXCEPT !.op = name, !.off0 = offset, !.rc0 = rc,
                 !.errs0 = errsWithNoProgress, !.closed0 = closed]

\* Read(p) with len(p) = L; (n, e): what rd.Read(p) returns; ok1, ok2: the
\* opener succeeds in the first reader() and in the reconnect.
\* The result: the reader's fields and the call's record after the return.
ReadResult(L, n, e, ok1, ok2) ==
  LET c0 == [Call("Read") EXCEPT !.L = L]
      r1 == reader(rc, offset, conns, ok1)
  IN
  IF closed
  THEN [offset |-> offset, rc |-> rc, errs |-> errsWithNoProgress, conns |-> conns,
        call |-> [c0 EXCEPT !.err = EOF]]
  ELSE IF r1.err # Nil
  THEN [offset |-> offset, rc |-> rc, errs |-> errsWithNoProgress, conns |-> conns,
        call |-> [c0 EXCEPT !.err = r1.err, !.opens = r1.opens]]
  ELSE
    LET off1  == AddOffset(offset, n)
        cs1   == Advance(r1.conns, r1.rc, n)
        errs1 == IF Progress(n, e) THEN 0 ELSE errsWithNoProgress
        c1    == [c0 EXCEPT !.n = n, !.uerr = e, !.opens = r1.opens, !.rd = r1.rc,
                            !.data = StreamData(r1.rc, r1.conns, n)]
    IN
    IF e = UEOF
    THEN
      LET errs2 == IF n = 0 THEN errs1 + 1 ELSE errs1 IN
      IF n = 0 /\ TooManyRetries(errs2)
      THEN [offset |-> off1, rc |-> r1.rc, errs |-> errs2, conns |-> cs1,
            call |-> [c1 EXCEPT !.err = UEOF]]
      ELSE
        LET cs2 == closeRc(cs1, r1.rc)
            r2  == reader(NilRc, off1, cs2, ok2)
        IN [offset |-> off1, rc |-> r2.rc, errs |-> errs2, conns |-> r2.conns,
            call |-> [c1 EXCEPT !.err = reconnectErr(r2.err),
                                !.opens = r1.opens \o r2.opens,
                                !.reconn = Len(r2.opens),
                                !.reopen = r2.err,
                                !.closedIds = ClosedBy(r1.rc)]]
    ELSE IF e = EOF
    THEN [offset |-> off1, rc |-> releaseOnEOF(cs1, r1.rc).rc, errs |-> errs1,
          conns |-> releaseOnEOF(cs1, r1.rc).conns,
          call |-> [c1 EXCEPT !.err = EOF, !.closedIds = ClosedBy(r1.rc)]]
    ELSE [offset |-> off1, rc |-> r1.rc, errs |-> errs1, conns |-> cs1,
          call |-> [c1 EXCEPT !.err = e]]

\* the (n, e) the environment may hand to this Read (none when rd.Read is
\* not reached); the opener fails only where it is called
ReadEnv(L, n, e, ok1, ok2) ==
  LET r1 == reader(rc, offset, conns, ok1) IN
  /\ IF closed \/ r1.err # Nil THEN n = 0 /\ e = Nil
     ELSE CanReturn(r1.rc, r1.conns, L, n, e)
  /\ (~ok1 => ~closed /\ r1.err = OpenFailure)
  /\ (~ok2 => ReadResult(L, n, e, ok1, ok2).call.reopen = OpenFailure)

\* a run of consecutive Reads, begun with errsWithNoProgress = 0, in each of
\* which rd.Read returned (0, io.ErrUnexpectedEOF) and no re-open failed
InRun(c) == c.uerr = UEOF /\ c.n = 0 /\ c.reopen \in {"none", Nil}

RunAfter(c) ==
  IF ~InRun(c) THEN 0
  ELSE IF c.errs0 = 0 THEN 1
  ELSE IF run > 0 THEN run + 1 ELSE 0

StallsAfter(c) ==
  IF c.uerr = "none" THEN stalls
  ELSE IF c.uerr = UEOF /\ c.n = 0 THEN stalls + 1 ELSE 0

Read(L, n, e, ok1, ok2) ==
  /\ ReadEnv(L, n, e, ok1, ok2)
  /\ LET r == ReadResult(L, n, e, ok1, ok2) IN
       /\ offset' = r.offset
       /\ rc' = r.rc
       /\ errsWithNoProgress' = r.errs
       /\ conns' = r.conns
       /\ last' = r.call
       /\ run' = RunAfter(r.call)
       /\ runRe' = IF RunAfter(r.call) = 0 THEN 0
                   ELSE IF RunAfter(r.call) = 1 THEN r.call.reconn
                   ELSE runRe + r.call.reconn
  /\ UNCHANGED <<size, open, closed>>

\* Close without the closed check: every call closes the held connection
Close_Repeated(cerr) ==
  /\ closed' = TRUE
  /\ conns' = closeHeld(conns, rc)
  /\ last' = [Call("Close") EXCEPT
                !.err = IF rc > 0 THEN cerr ELSE Nil,
                !.uerr = IF rc > 0 THEN cerr ELSE "none",
                !.closedIds = ClosedBy(rc)]
  /\ run' = 0 /\ runRe' = 0
  /\ UNCHANGED <<size, open, offset, rc, errsWithNoProgress>>

\* Close marks the reader closed and leaves the connection open
Close_Leaky(cerr) ==
  /\ IF closed
     THEN /\ last' = Call("Close")
          /\ UNCHANGED <<closed, conns>>
     ELSE /\ closed' = TRUE
          /\ last' = Call("Close")
          /\ UNCHANGED conns
  /\ run' = 0 /\ runRe' = 0
  /\ UNCHANGED <<size, open, offset, rc, errsWithNoProgress>>

\* Close(); cerr: what hrs.rc.Close() returns on a connection of the opener
\* (the NopCloser's Close returns nil)
Close(cerr) ==
  /\ IF closed
     THEN /\ last' = Call("Close")
          /\ UNCHANGED <<closed, conns>>
     ELSE /\ closed' = TRUE
          /\ conns' = closeHeld(conns, rc)
          /\ last' = [Call("Close") EXCEPT
                        !.err = IF rc > 0 THEN cerr ELSE Nil,
                        !.uerr = IF rc > 0 THEN cerr ELSE "none",
                        !.closedIds = ClosedBy(rc)]
  /\ run' = 0 /\ runRe' = 0
  /\ UNCHANGED <<size, open, offset, rc, errsWithNoProgress>>

\* the offset is checked before the closed flag
ReadAtCheck_OffsetFirst(isClosed, off, sz, hasOpen) ==
  IF off < 0 THEN ErrInvalidArgument
  ELSE IF isClosed THEN ErrUnavailable
  ELSE IF sz # UnknownSize /\ off >= sz THEN EOF
  ELSE IF ~hasOpen THEN ErrNotImplemented
  ELSE Nil

\* ReadAt, lines 107-121: the checks made before the opener is called
ReadAtCheck(isClosed, off, sz, hasOpen) ==
  IF isClosed THEN ErrUnavailable
  ELSE IF off < 0 THEN ErrInvalidArgument
  ELSE IF sz # UnknownSize /\ off >= sz THEN EOF
  ELSE IF ~hasOpen THEN ErrNotImplemented
  ELSE Nil

\* a stream that ends inside the buffer is reported as a clean end
ReadFullErr_PlainEOF(L, n, e) ==
  IF n >= L THEN Nil
  ELSE e

\* io.ReadFull(rc, p), len(p) = L: n bytes were read in all when the stream
\* stopped with e (Nil: it did not stop before the buffer was full)
ReadFullErr(L, n, e) ==
  IF n >= L THEN Nil
  ELSE IF e = EOF THEN (IF n = 0 THEN EOF ELSE UEOF)
  ELSE e

CanReadFull(c, L, n, e) ==
  /\ n \in 0..Min(L, Avail(c))
  /\ IF n = L THEN e = Nil
     ELSE /\ e \in {EOF, UEOF, Other}
          /\ (e = EOF  => n = Avail(c))
          /\ (e = UEOF => n < Avail(c))

\* ReadAt done as Seek and Read: the cursor follows the bytes read
ReadAt_MovesCursor(L, off, ok, n, e) ==
  LET pre == ReadAtCheck(closed, off, size, open)
      c0  == [Call("ReadAt") EXCEPT !.L = L, !.arg = off]
      c   == NewConn(off)
  IN
  /\ IF pre # Nil
     THEN /\ n = 0 /\ e = Nil /\ ok
          /\ last' = [c0 EXCEPT !.err = pre]
          /\ UNCHANGED offset
     ELSE IF ~ok
     THEN /\ n = 0 /\ e = Nil
          /\ last' = [c0 EXCEPT !.err = OpenFailure, !.opens = <<off>>]
          /\ UNCHANGED offset
     ELSE /\ CanReadFull(c, L, n, e)
          /\ last' = [c0 EXCEPT !.n = n, !.err = ReadFullErr(L, n, e),
                                !.uerr = e, !.data = Bytes(c, n),
                                !.opens = <<off>>,
                                !.privCloses = closeConn(c).closes]
          /\ offset' = off + n
  /\ run' = 0 /\ runRe' = 0
  /\ UNCHANGED <<size, open, rc, closed, errsWithNoProgress, conns>>

\* ReadAt(p, off) with len(p) = L; ok: the opener succeeds; (n, e): how far
\* io.ReadFull got on the private connection
ReadAt(L, off, ok, n, e) ==
  LET pre == ReadAtCheck(closed, off, size, open)
      c0  == [Call("ReadAt") EXCEPT !.L = L, !.arg = off]
      c   == NewConn(off)
  IN
  /\ IF pre # Nil
     THEN /\ n = 0 /\ e = Nil /\ ok
          /\ last' = [c0 EXCEPT !.err = pre]
     ELSE IF ~ok
     THEN /\ n = 0 /\ e = Nil
          /\ last' = [c0 EXCEPT !.err = OpenFailure, !.opens = <<off>>]
     ELSE /\ CanReadFull(c, L, n, e)
          /\ last' = [c0 EXCEPT !.n = n, !.err = ReadFullErr(L, n, e),
                                !.uerr = e, !.data = Bytes(c, n),
                                !.opens = <<off>>,
                                !.privCloses = closeConn(c).closes]
  /\ run' = 0 /\ runRe' = 0
  /\ UNCHANGED <<hrsVars, conns>>

\* seeking from the current position ignores the current position
SeekAbs_CurrentAsStart(off, whence, cur, sz) ==
  CASE whence = SeekStart   -> off
    [] whence = SeekCurrent -> off
    [] whence = SeekEnd     -> sz + off
    [] OTHER                -> cur

\* Seek, lines 141-154: the absolute position
SeekAbs(off, whence, cur, sz) ==
  CASE whence = SeekStart   -> off
    [] whence = SeekCurrent -> cur + off
    [] whence = SeekEnd     -> sz + off
    [] OTHER                -> cur

\* Seek, lines 137-158: the error of the call, Nil when it goes through
SeekErr(off, whence, isClosed, cur, sz) ==
  IF isClosed THEN ErrUnavailable
  ELSE IF whence = SeekEnd /\ sz = UnknownSize THEN ErrUnavailable
  ELSE IF whence \notin {SeekStart, SeekCurrent, SeekEnd} THEN ErrInvalidArgument
  ELSE IF SeekAbs(off, whence, cur, sz) < 0 THEN ErrInvalidArgument
  ELSE Nil

\* the connection is closed but hrs.rc keeps naming it
releaseOnSeek_KeepsRc(cs, id) == [rc |-> id, conns |-> closeRc(cs, id)]

\* the connection is kept, open, for the new position
releaseOnSeek_Reuse(cs, id) == [rc |-> id, conns |-> cs]

\* Seek, lines 161-167: the held connection is closed and dropped
releaseOnSeek(cs, id) == [rc |-> NilRc, conns |-> closeRc(cs, id)]

\* every successful Seek drops the connection
SeekMoves_Always(abs, cur) == TRUE

\* Seek, line 160: the cursor moves
SeekMoves(abs, cur) == abs # cur

Seek(off, whence) ==
  LET err == SeekErr(off, whence, closed, offset, size)
      abs == SeekAbs(off, whence, offset, size)
      c0  == [Call("Seek") EXCEPT !.arg = off, !.whence = whence]
  IN
  /\ IF err # Nil
     THEN /\ last' = [c0 EXCEPT !.err = err]
          /\ UNCHANGED <<offset, rc, conns>>
     ELSE IF SeekMoves(abs, offset)
     THEN /\ conns' = releaseOnSeek(conns, rc).conns
          /\ rc' = releaseOnSeek(conns, rc).rc
          /\ offset' = abs
          /\ last' = [c0 EXCEPT !.ret = abs, !.closedIds = ClosedBy(rc)]
     ELSE /\ last' = [c0 EXCEPT !.ret = offset]
          /\ UNCHANGED <<offset, rc, conns>>
  /\ run' = 0 /\ runRe' = 0
  /\ UNCHANGED <<size, open, closed, errsWithNoProgress>>

\* newHTTPReadSeeker(size, open)
Init ==
  /\ size \in {UnknownSize, BlobLen}
  /\ open \in BOOLEAN
  /\ offset = 0
  /\ rc = NilRc
  /\ closed = FALSE
  /\ errsWithNoProgress = 0
  /\ conns = <<>>
  /\ last = NoCall
  /\ run = 0 /\ runRe = 0 /\ stalls = 0
  /\ got = <<>>
  /\ pc = "idle"
  /\ stallsHere = 0
  /\ calls = [i \in Callers |-> IdleCall]
  /\ pconns = <<>>

InBounds ==
  /\ Len(conns') <= MaxConns
  /\ errsWithNoProgress' <= MaxStall
  /\ offset' <= MaxOff

\* a Read call with any buffer and any behaviour of connection and opener
AnyRead ==
  \E L \in 0..MaxBuf, ok1 \in BOOLEAN :
     /\ (~ok1 => ~closed /\ reader(rc, offset, conns, ok1).err = OpenFailure)
     /\ \E n \in 0..L, e \in StreamErrs :
           /\ ReadEnv(L, n, e, ok1, TRUE)
           /\ \E ok2 \in BOOLEAN : Read(L, n, e, ok1, ok2)

DoRead ==
  /\ AnyRead
  /\ InBounds
  /\ UNCHANGED <<callerVars, auxVars>>

DoReadAt ==
  /\ \E L \in 0..MaxBuf, off \in -1..BlobLen, ok \in BOOLEAN :
        /\ (~ok => ReadAtCheck(closed, off, size, open) = Nil)
        /\ \E n \in 0..L, e \in StreamErrs : ReadAt(L, off, ok, n, e)
  /\ InBounds
  /\ UNCHANGED <<callerVars, auxVars>>

\* the Seek arguments tried: every whence, one value that is none of the
\* three, and the offsets that ask for a position in -1..MaxOff
SeekArgs(off, whence) ==
  LET pos == CASE whence = SeekStart   -> off
               [] whence = SeekCurrent -> offset + off
               [] whence = SeekEnd     -> (IF size = UnknownSize THEN 0 ELSE size) + off
               [] OTHER                -> off
  IN whence \in 0..3 /\ pos \in -1..MaxOff /\ (whence = 3 => off = 0)

AnySeek ==
  \E whence \in 0..3, off \in -(MaxOff + 1)..MaxOff :
     SeekArgs(off, whence) /\ Seek(off, whence)

DoSeek ==
  /\ AnySeek
  /\ InBounds
  /\ UNCHANGED <<callerVars, auxVars>>

DoClose ==
  /\ \E cerr \in {Nil, CloseFailure} : Close(cerr)
  /\ UNCHANGED <<callerVars, auxVars>>

Next == DoRead \/ DoReadAt \/ DoSeek \/ DoClose

Spec == Init /\ [][Next]_vars

\* ------------------------------------------------- a sequential caller
\* A reader of known size whose opener always succeeds; the caller repeats
\* Read with a non-empty buffer until it gets an error.  Every read of a
\* connection delivers bytes, ends the stream, or is truncated; at most
\* maxRetry truncations in a row deliver nothing.
LiveInit ==
  /\ size = BlobLen
  /\ open = TRUE
  /\ offset = 0
  /\ rc = NilRc
  /\ closed = FALSE
  /\ errsWithNoProgress = 0
  /\ conns = <<>>
  /\ last = NoCall
  /\ run = 0 /\ runRe = 0 /\ stalls = 0
  /\ got = <<>>
  /\ pc = "reading"
  /\ stallsHere = 0
  /\ calls = [i \in Callers |-> IdleCall]
  /\ pconns = <<>>

CallerRead ==
  /\ pc = "reading"
  /\ \E L \in 1..MaxBuf, n \in 0..MaxBuf, e \in {Nil, EOF, UEOF} :
       /\ (n = 0 => e # Nil)
       /\ (n = 0 /\ e = UEOF => stalls < maxRetry)
       /\ Read(L, n, e, TRUE, TRUE)
  /\ stalls' = StallsAfter(last')
  /\ got' = got \o last'.data
  /\ pc' = IF last'.err = Nil THEN "reading" ELSE "done"
  /\ UNCHANGED auxVars

LiveNext == CallerRead

LiveSpec == LiveInit /\ [][LiveNext]_vars /\ WF_vars(CallerRead)

\* ------------------------------------------- stalls at the current offset
\* Read and Seek calls on a reader, with the zero-progress truncations
\* counted per offset: the count starts again when the cursor moves and
\* when a Read ends with another error or with end-of-stream.  The three
\* reconnects of a full run and the connection of one more position fit in
\* MaxConns + 1 connections.
HereAfterRead(c) ==
  IF c.uerr = UEOF /\ c.n = 0 THEN stallsHere + 1
  ELSE IF c.n > 0 \/ c.err # Nil THEN 0
  ELSE stallsHere

HereAfterSeek(c) == IF offset' # offset THEN 0 ELSE stallsHere

StallBounds ==
  /\ Len(conns') <= MaxConns + 1
  /\ errsWithNoProgress' <= MaxStall
  /\ offset' <= MaxOff
  /\ stallsHere' <= MaxStall

StallRead ==
  /\ AnyRead
  /\ stallsHere' = HereAfterRead(last')
  /\ StallBounds
  /\ UNCHANGED <<callerVars, calls, pconns>>

StallSeek ==
  /\ AnySeek
  /\ stallsHere' = HereAfterSeek(last')
  /\ StallBounds
  /\ UNCHANGED <<callerVars, calls, pconns>>

StallNext == StallRead \/ StallSeek

StallSpec == Init /\ [][StallNext]_vars

\* ------------------------------------------------ concurrent ReadAt calls
\* Callers 1..MaxCallers each make one ReadAt call, with an empty buffer or
\* one of MaxBuf bytes, on the same reader; the calls run one step at a
\* time, in any interleaving.  The steps of a call: the checks and the opener call
\* (lines 107-126); each rc.Read made by io.ReadFull (line 133), the last
\* of them ending io.ReadFull with the values to return; the deferred
\* rc.Close() and the return (lines 127-131), after which nothing of the
\* call is left.  Callers are interchangeable, so they start in the order
\* of their numbers.

\* a connection the opener returned to caller i: who read from it, who
\* closed it, and the callers in their call at the time it was closed
PrivConn(off, i) ==
  [c |-> NewConn(off), owner |-> i, readBy |-> {}, closedBy |-> {}, during |-> {}]

\* one connection variable for all calls, holding the latest connection
myConn_Shared(i) == Len(pconns)

\* ReadAt, line 123: rc is a variable of the call
myConn(i) == calls[i].conn

InCall(i) == calls[i].pc \in {"reading", "returning"}

\* before the ReadAt calls the reader may have read its first byte, so
\* that it holds a connection of its own
ConcSetup ==
  /\ last.op = "none"
  /\ \A i \in Callers : calls[i].pc = "idle"
  /\ Read(1, 1, Nil, TRUE, TRUE)
  /\ UNCHANGED <<callerVars, auxVars>>

\* ReadAt, lines 107-126: the checks, then hrs.open(offset); with an empty
\* buffer io.ReadFull returns at once
RaStart(i, L, off, ok) ==
  LET pre == ReadAtCheck(closed, off, size, open)
      c0  == [IdleCall EXCEPT !.L = L, !.off = off]
  IN
  /\ calls[i].pc = "idle"
  /\ \A j \in Callers : j < i => calls[j].pc # "idle"
  /\ IF pre # Nil
     THEN /\ ok
          /\ calls' = [calls EXCEPT ![i] = [c0 EXCEPT !.pc = "returning", !.err = pre]]
          /\ UNCHANGED pconns
     ELSE IF ~ok
     THEN /\ calls' = [calls EXCEPT ![i] =
                         [c0 EXCEPT !.pc = "returning", !.err = OpenFailure,
                                    !.opens = <<off>>]]
          /\ UNCHANGED pconns
     ELSE /\ pconns' = Append(pconns, PrivConn(off, i))
          /\ calls' = [calls EXCEPT ![i] =
                         [c0 EXCEPT !.pc = IF L = 0 THEN "returning" ELSE "reading",
                                    !.conn = Len(pconns) + 1,
                                    !.opens = <<off>>]]
  /\ UNCHANGED <<hrsVars, conns, last, run, runRe, callerVars, stallsHere>>

\* io.ReadFull, one rc.Read(p[n:]) of its loop: k more bytes and error e;
\* with the buffer full or an error the loop ends and io.ReadFull returns
RaRead(i, k, e) ==
  LET id == myConn(i)
      c  == pconns[id].c
      n1 == calls[i].n + k
      over == n1 >= calls[i].L \/ e # Nil
  IN
  /\ calls[i].pc = "reading"
  /\ IF c.closes > 0 THEN k = 0 /\ e = Other
     ELSE /\ k \in 0..Min(calls[i].L - calls[i].n, Avail(c))
          /\ e \in StreamErrs
          /\ (e = EOF  => k = Avail(c))
          /\ (e = UEOF => k < Avail(c))
          /\ (k > 0 \/ e # Nil)
  /\ pconns' = [pconns EXCEPT ![id].c.pos = @ + k, ![id].readBy = @ \cup {i}]
  /\ calls' = [calls EXCEPT
                 ![i].n = n1,
                 ![i].data = @ \o Bytes(c, k),
                 ![i].pc = IF over THEN "returning" ELSE "reading",
                 ![i].err = IF over THEN ReadFullErr(calls[i].L, n1, e) ELSE Nil]
  /\ UNCHANGED <<hrsVars, conns, last, run, runRe, callerVars, stallsHere>>

\* ReadAt, lines 127-131: the deferred rc.Close() of a call that opened a
\* connection, and the return
RaReturn(i) ==
  LET id == myConn(i) IN
  /\ calls[i].pc = "returning"
  /\ IF calls[i].conn > 0
     THEN pconns' = [pconns EXCEPT
                       ![id].c = closeConn(@),
                       ![id].closedBy = @ \cup {i},
                       ![id].during = {j \in Callers \ {i} : InCall(j)}]
     ELSE UNCHANGED pconns
  /\ calls' = [calls EXCEPT
                 ![i] = [IdleCall EXCEPT !.pc = "done", !.conn = calls[i].conn]]
  /\ UNCHANGED <<hrsVars, conns, last, run, runRe, callerVars, stallsHere>>

DoRaStart ==
  \E i \in Callers, L \in {0, MaxBuf}, off \in -1..BlobLen, ok \in BOOLEAN :
     RaStart(i, L, off, ok)

DoRaRead == \E i \in Callers, k \in 0..MaxBuf, e \in StreamErrs : RaRead(i, k, e)

DoRaReturn == \E i \in Callers : RaReturn(i)

ConcNext == ConcSetup \/ DoRaStart \/ DoRaRead \/ DoRaReturn

ConcSpec == Init /\ [][ConcNext]_vars

\* ------------------------------------------------------------ properties
\* the stream the opener returns for offset o
Stream(o) == SubSeq(Blob, o + 1, BlobLen)

\* the absolute position a Seek call asks for
WantedAbs(c) ==
  CASE c.whence = SeekStart   -> c.arg
    [] c.whence = SeekCurrent -> c.off0 + c.arg
    [] c.whence = SeekEnd     -> size + c.arg
    [] OTHER                  -> 0

\* C1: in a run of consecutive Reads begun with errsWithNoProgress = 0 in
\* which the connection each time returns (0, io.ErrUnexpectedEOF) and every
\* re-open succeeds, calls 1..3 return (0, nil) after one reconnect each,
\* call 4 returns (0, io.ErrUnexpectedEOF) without any opener call, and the
\* opener is called for reconnect at most maxRetry times in the run.
C1_RetryBound ==
  /\ (run \in 1..maxRetry =>
        last.n = 0 /\ last.err = Nil /\ last.reconn = 1 /\ last.reopen = Nil)
  /\ (run = maxRetry + 1 =>
        last.n = 0 /\ last.err = UEOF /\ last.opens = <<>>)
  /\ runRe <= maxRetry

C1_Witness ==
  /\ run = maxRetry + 1
  /\ runRe = maxRetry
  /\ last.op = "Read" /\ last.err = UEOF /\ last.opens = <<>>

\* C2: with a known size, an opener that always succeeds and at most
\* maxRetry consecutive zero-progress truncations, the caller that repeats
\* Read until an error eventually gets end-of-stream, never gets
\* io.ErrUnexpectedEOF, and has then received exactly the blob, in order.
C2_Recovery ==
  /\ <>(pc = "done")
  /\ [](pc = "done" => last.err = EOF /\ got = Blob)
  /\ [](last.err # UEOF)

C2_Witness ==
  /\ pc = "done"
  /\ got = Blob
  /\ last.err = EOF
  /\ Len(conns) >= BlobLen + maxRetry

\* C3: a successful Seek to the current offset keeps the held connection
\* (same object, not closed) and the offset; a successful Seek to another
\* position closes the held connection, if any, sets rc to none and the
\* offset to the position, and returns it.
C3_SeekConnection ==
  (last.op = "Seek" /\ last.err = Nil) =>
     IF WantedAbs(last) = last.off0
     THEN /\ rc = last.rc0
          /\ offset = last.off0
          /\ last.closedIds = {}
          /\ (rc > 0 => conns[rc].closes = 0)
     ELSE /\ rc = NilRc
          /\ offset = WantedAbs(last)
          /\ last.ret = WantedAbs(last)
          /\ last.closedIds = ClosedBy(last.rc0)
          /\ (last.rc0 > 0 => conns[last.rc0].closes = 1)

C3_Witness ==
  /\ last.op = "Seek" /\ last.err = Nil
  /\ WantedAbs(last) = last.off0
  /\ last.off0 > 0
  /\ rc > 0 /\ rc = last.rc0 /\ conns[rc].closes = 0

\* a ReadAt on an open reader of known size at an offset inside the blob
\* whose connection was opened
ReadAtInside ==
  /\ last.op = "ReadAt"
  /\ ~last.closed0
  /\ size # UnknownSize
  /\ 0 <= last.arg /\ last.arg < size
  /\ last.uerr # "none"

\* C4 as stated: such a ReadAt, reading a stream that is not cut short,
\* returns exactly L bytes, the first L bytes of the opener's stream at o,
\* and its private connection is closed when it returns.
C4_Original ==
  (ReadAtInside /\ last.uerr \in {Nil, EOF}) =>
     /\ last.n = last.L
     /\ last.data = SubSeq(Stream(last.arg), 1, last.L)
     /\ last.privCloses = 1

\* C4, amended: such a ReadAt returns a prefix of the opener's stream at o;
\* exactly L bytes if and only if it reports no error; when the stream ends
\* before L bytes (o + L > size) it returns the size - o bytes left with
\* io.ErrUnexpectedEOF; the private connection is closed exactly once
\* whether the call succeeded or failed.
C4_ReadAtFullOrError ==
  ReadAtInside =>
     /\ last.n <= last.L
     /\ last.data = SubSeq(Stream(last.arg), 1, last.n)
     /\ (last.err = Nil <=> last.n = last.L)
     /\ (last.arg + last.L > size => last.n <= size - last.arg /\ last.err # Nil)
     /\ (last.n < last.L /\ last.uerr = EOF =>
            last.n = size - last.arg /\ last.err = UEOF)
     /\ last.privCloses = 1

C4_Witness ==
  /\ ReadAtInside
  /\ last.arg + last.L > size
  /\ last.n = size - last.arg
  /\ last.err = UEOF /\ last.uerr = EOF
  /\ last.privCloses = 1

\* C5: ReadAt fails with Unavailable on a closed reader whatever the
\* offset; otherwise with InvalidArgument on a negative offset; otherwise
\* returns (0, end-of-stream) when the size is known and offset >= size;
\* otherwise fails with NotImplemented when there is no opener.  In these
\* four outcomes the opener is not called.
C5_ReadAtChecks ==
  last.op = "ReadAt" =>
     IF last.closed0
     THEN last.err = ErrUnavailable /\ last.n = 0 /\ last.opens = <<>>
     ELSE IF last.arg < 0
     THEN last.err = ErrInvalidArgument /\ last.n = 0 /\ last.opens = <<>>
     ELSE IF size # UnknownSize /\ last.arg >= size
     THEN last.err = EOF /\ last.n = 0 /\ last.opens = <<>>
     ELSE IF ~open
     THEN last.err = ErrNotImplemented /\ last.n = 0 /\ last.opens = <<>>
     ELSE last.opens = <<last.arg>>

C5_Witness ==
  /\ last.op = "ReadAt"
  /\ last.closed0
  /\ last.arg < 0
  /\ last.err = ErrUnavailable

\* C6: the first Close sets closed, closes the held connection (if any) and
\* returns that connection's close error; a later Close returns no error
\* and closes nothing; a Read after Close returns (0, end-of-stream), calls
\* no opener and leaves offset, connection and stall counter unchanged.
C6_CloseTerminal ==
  [][ /\ (last'.op = "Close" /\ ~closed =>
             /\ closed'
             /\ rc' = rc
             /\ conns' = [i \in DOMAIN conns |->
                            IF i = rc THEN [conns[i] EXCEPT !.closes = 1]
                            ELSE conns[i]]
             /\ last'.closedIds = ClosedBy(rc)
             /\ last'.err = (IF last'.uerr = "none" THEN Nil ELSE last'.uerr)
             /\ (rc > 0 <=> last'.uerr # "none"))
      /\ (last'.op = "Close" /\ closed =>
             /\ last'.err = Nil
             /\ last'.closedIds = {}
             /\ UNCHANGED <<closed, rc, conns, offset, errsWithNoProgress>>)
      /\ (last'.op = "Read" /\ closed =>
             /\ last'.n = 0 /\ last'.err = EOF /\ last'.opens = <<>>
             /\ UNCHANGED <<closed, rc, conns, offset, errsWithNoProgress>>)
    ]_vars

C6_Witness ==
  /\ last.op = "Close"
  /\ last.closed0
  /\ last.err = Nil
  /\ last.rc0 > 0 /\ conns[last.rc0].closes = 1

\* C7: Seek fails with Unavailable on a closed reader or when whence is end
\* and the size is unknown, with InvalidArgument when whence is unrecognized
\* or the position is negative, and otherwise returns the position off,
\* offset + off or size + off (also beyond the size); a failing Seek leaves
\* offset, connection and closed flag unchanged.
C7_SeekResult ==
  last.op = "Seek" =>
     LET want == IF last.closed0 THEN ErrUnavailable
                 ELSE IF last.whence = SeekEnd /\ size = UnknownSize
                 THEN ErrUnavailable
                 ELSE IF last.whence \notin {SeekStart, SeekCurrent, SeekEnd}
                 THEN ErrInvalidArgument
                 ELSE IF WantedAbs(last) < 0 THEN ErrInvalidArgument
                 ELSE Nil
     IN /\ last.err = want
        /\ (want = Nil => last.ret = WantedAbs(last) /\ offset = last.ret)
        /\ (want # Nil =>
              /\ offset = last.off0
              /\ rc = last.rc0
              /\ closed = last.closed0
              /\ last.closedIds = {})

C7_Witness ==
  /\ last.op = "Seek"
  /\ last.whence = SeekCurrent
  /\ last.off0 > 0 /\ last.arg > 0
  /\ last.err = Nil
  /\ size # UnknownSize
  /\ last.ret = last.off0 + last.arg /\ last.ret > size

\* C8: every Read changes offset by exactly the number of bytes it returns;
\* only a successful Seek decreases offset; offset is never negative.
C8_OffsetAccounting ==
  /\ offset >= 0
  /\ [][ /\ (last'.op = "Read" => offset' = offset + last'.n)
         /\ (offset' < offset => last'.op = "Seek" /\ last'.err = Nil)
         /\ (last'.op \in {"ReadAt", "Close"} => offset' = offset)
         /\ offset' >= 0
       ]_vars

C8_Witness ==
  /\ last.op = "Read"
  /\ last.n > 0
  /\ last.uerr = UEOF /\ last.err = UEOF
  /\ offset = last.off0 + last.n

\* C9: when a Read on an open reader gets io.EOF from the stream, that
\* stream has been closed, rc is none and the Read returns end-of-stream.
C9_ReleasedOnEOF ==
  (last.op = "Read" /\ last.uerr = EOF) =>
     /\ last.err = EOF
     /\ rc = NilRc
     /\ last.closedIds = ClosedBy(last.rd)
     /\ (last.rd > 0 => conns[last.rd].closes = 1)

C9_Witness ==
  /\ last.op = "Read"
  /\ last.uerr = EOF
  /\ last.n > 0
  /\ last.rd > 0 /\ conns[last.rd].closes = 1
  /\ rc = NilRc

\* C10: with a known size Read never calls the opener with an offset >=
\* size; with no connection held and offset >= size it reads the synthetic
\* empty stream and returns (0, end-of-stream), also without an opener;
\* every opener call of Read passes the current offset.
C10_NoOpenPastEnd ==
  last.op = "Read" =>
     /\ (size # UnknownSize => \A i \in DOMAIN last.opens : last.opens[i] < size)
     /\ (~last.closed0 /\ last.rc0 = NilRc /\ size # UnknownSize
           /\ last.off0 >= size =>
           /\ last.rd = NopRc
           /\ last.n = 0 /\ last.err = EOF /\ last.opens = <<>>)
     /\ \A i \in DOMAIN last.opens :
           last.opens[i] = IF i <= Len(last.opens) - last.reconn
                           THEN last.off0 ELSE last.off0 + last.n

C10_Witness ==
  /\ last.op = "Read"
  /\ ~open
  /\ size # UnknownSize
  /\ last.rc0 = NilRc
  /\ last.off0 = size
  /\ last.err = EOF /\ last.rd = NopRc

\* the connections of the opener (for sequential reading) that are open
OpenConns == {i \in DOMAIN conns : conns[i].closes = 0}

\* C11: among the connections obtained from the opener for sequential
\* reading at most one is open, and it is the one hrs.rc names; so a new one
\* is opened only after the previous one was closed.
C11_SingleConnection ==
  /\ Cardinality(OpenConns) <= 1
  /\ \A i \in OpenConns : rc = i /\ i = Len(conns)

C11_Witness ==
  /\ Len(conns) >= 3
  /\ OpenConns = {Len(conns)}
  /\ rc = Len(conns)
  /\ \A i \in 1..(Len(conns) - 1) : conns[i].closes = 1

\* C12 as stated: whenever closed is true the connection the reader owned
\* has been closed and hrs.rc is none.
C12_Original ==
  closed => (OpenConns = {} /\ rc = NilRc)

\* C12, amended: whenever closed is true every connection the reader owned
\* has been closed exactly once; hrs.rc is not reset by Close and keeps
\* naming the connection held when Close was called.
C12_ClosedReleased ==
  /\ [](closed => (\A i \in DOMAIN conns : conns[i].closes = 1))
  /\ [][ (~closed /\ closed') => rc' = rc ]_vars

C12_Witness ==
  /\ closed
  /\ rc > 0
  /\ conns[rc].closes = 1
  /\ offset > 0

\* C13: ReadAt leaves offset, hrs.rc and the connection it names, the stall
\* counter and the closed flag unchanged, on success and on every failure;
\* the connection it opens is not among the reader's connections.
C13_ReadAtStateless ==
  [][ last'.op = "ReadAt" =>
        UNCHANGED <<offset, rc, errsWithNoProgress, closed, conns, size, open>>
    ]_vars

C13_Witness ==
  /\ last.op = "ReadAt"
  /\ last.n > 0 /\ last.err = Nil
  /\ rc > 0 /\ conns[rc].closes = 0
  /\ offset > 0
  /\ last.arg # offset
  /\ errsWithNoProgress > 0

\* C14 as stated: after any Read that returns at least one byte, or that
\* returns no error at all, the stall counter is zero.
C14_Original ==
  (last.op = "Read" /\ ~last.closed0 /\ (last.n > 0 \/ last.err = Nil)) =>
     errsWithNoProgress = 0

\* C14, amended: after any Read whose rd.Read returned at least one byte or
\* no error the stall counter is zero; a Read that returns (0, nil) because
\* it suppressed a zero-progress truncation leaves the counter one higher
\* than before, between 1 and maxRetry.
C14_StallReset ==
  /\ (last.op = "Read" /\ last.uerr # "none" /\ (last.n > 0 \/ last.uerr = Nil)) =>
        errsWithNoProgress = 0
  /\ (last.op = "Read" /\ last.uerr = UEOF /\ last.n = 0 /\ last.err = Nil) =>
        /\ errsWithNoProgress = last.errs0 + 1
        /\ errsWithNoProgress \in 1..maxRetry

C14_Witness ==
  /\ last.op = "Read"
  /\ last.n = 0 /\ last.uerr = Nil /\ last.L > 0
  /\ last.errs0 > 0
  /\ errsWithNoProgress = 0

\* C15: if the stall counter exceeds maxRetry when a Read returns, that Read
\* returned zero bytes and a non-nil error; after a Read that returned bytes
\* or no error the counter is at most maxRetry.
C15_BoundObservable ==
  last.op = "Read" =>
     /\ (errsWithNoProgress > maxRetry => last.n = 0 /\ last.err # Nil)
     /\ (last.n > 0 \/ last.err = Nil => errsWithNoProgress <= maxRetry)

C15_Witness ==
  /\ last.op = "Read"
  /\ last.uerr = UEOF /\ last.n = 0
  /\ last.errs0 = maxRetry
  /\ errsWithNoProgress = maxRetry + 1
  /\ last.err = UEOF

\* C16: when rd.Read returns io.ErrUnexpectedEOF with the stall counter
\* within the bound and the re-open fails, Read returns io.ErrUnexpectedEOF
\* with the n bytes read, offset has advanced by n, the broken connection is
\* closed, hrs.rc is none and the opener was called once for the re-open.
C16_FailedReconnect ==
  (last.op = "Read" /\ last.uerr = UEOF /\ last.reopen \notin {"none", Nil}) =>
     /\ last.err = UEOF
     /\ Len(last.data) = last.n
     /\ offset = last.off0 + last.n
     /\ rc = NilRc
     /\ last.rd > 0 /\ conns[last.rd].closes = 1
     /\ last.closedIds = {last.rd}
     /\ last.reconn = 1
     /\ last.opens[Len(last.opens)] = offset
     /\ OpenConns = {}

C16_Witness ==
  /\ last.op = "Read"
  /\ last.uerr = UEOF
  /\ last.reopen = OpenFailure
  /\ last.n > 0
  /\ last.err = UEOF
  /\ rc = NilRc

\* C18: every connection the opener returned is closed at most once, that of
\* a ReadAt exactly once; once Close has been called every connection the
\* opener returned to the reader has been closed exactly once.
C18_NoLeakNoDoubleClose ==
  /\ \A i \in DOMAIN conns : conns[i].closes <= 1
  /\ last.privCloses <= 1
  /\ (last.op = "ReadAt" /\ last.uerr # "none" => last.privCloses = 1)
  /\ (closed => \A i \in DOMAIN conns : conns[i].closes = 1)

C18_Witness ==
  /\ closed
  /\ last.op = "Close" /\ ~last.closed0
  /\ errsWithNoProgress > maxRetry
  /\ rc = Len(conns) /\ rc > maxRetry
  /\ \A i \in DOMAIN conns : conns[i].closes = 1

\* C19: whenever hrs.rc names a connection of the opener, the offset it was
\* opened at plus the bytes Read took from it is hrs.offset; every Read that
\* returns n bytes returns the blob's bytes [offset_before, offset_before+n).
C19_CursorAgrees ==
  /\ (rc > 0 => conns[rc].start + conns[rc].pos = offset)
  /\ (last.op = "Read" =>
        /\ Len(last.data) = last.n
        /\ last.data = SubSeq(Blob, last.off0 + 1, last.off0 + last.n))

C19_Witness ==
  /\ last.op = "Read"
  /\ last.n > 0
  /\ last.off0 > 0
  /\ Len(conns) >= 2
  /\ rc > 0 /\ conns[rc].start > 0 /\ conns[rc].pos > 0

\* C20: stalls are counted per offset.  Read returns io.ErrUnexpectedEOF
\* because of the retry bound (zero bytes, no reconnect attempted) only when
\* more than maxRetry zero-progress truncations have occurred at the current
\* offset; truncations from before a Seek to another offset, or from before
\* a Read that ended with another error or with end-of-stream, do not count.
C20_StallsPerOffset ==
  (/\ last.op = "Read"
   /\ last.uerr = UEOF /\ last.n = 0
   /\ last.err = UEOF /\ last.reopen = "none")
  => stallsHere > maxRetry

\* what a ReadAt call running alone on this reader can return for the
\* arguments of call c
AloneResult(c) ==
  LET pre == ReadAtCheck(closed, c.off, size, open) IN
  IF pre # Nil
  THEN c.n = 0 /\ c.err = pre /\ c.data = <<>> /\ c.opens = <<>> /\ c.conn = 0
  ELSE /\ c.opens = <<c.off>>
       /\ \/ c.n = 0 /\ c.err = OpenFailure /\ c.data = <<>> /\ c.conn = 0
          \/ /\ c.conn > 0
             /\ \E e \in StreamErrs :
                   /\ CanReadFull(NewConn(c.off), c.L, c.n, e)
                   /\ c.err = ReadFullErr(c.L, c.n, e)
             /\ c.data = Bytes(NewConn(c.off), c.n)

\* C17: for any interleaving of ReadAt calls on one open reader, with no
\* Read, Seek or Close running: a call that passed the checks has called
\* the opener once, with its own offset; the connection it got is read and
\* closed by that call only, and holds the position offset + bytes read by
\* it; what the call is about to return is what it could return when
\* running alone; a connection is closed exactly once, when its call
\* returns, so that none is open when all calls have returned; and no step
\* of a call changes the reader's fields or the reader's own connection.
C17_ConcurrentReadAt ==
  /\ [](\A i \in Callers :
          /\ (calls[i].pc = "reading" =>
                calls[i].opens = <<calls[i].off>> /\ calls[i].conn > 0)
          /\ (calls[i].pc = "returning" => AloneResult(calls[i]))
          /\ (calls[i].conn > 0 =>
                calls[i].conn \in DOMAIN pconns /\ pconns[calls[i].conn].owner = i))
  /\ [](\A j \in DOMAIN pconns :
          LET o == pconns[j].owner IN
          /\ calls[o].conn = j
          /\ pconns[j].readBy \subseteq {o}
          /\ pconns[j].closedBy \subseteq {o}
          /\ (InCall(o) =>
                /\ pconns[j].c = [NewConn(calls[o].off) EXCEPT !.pos = calls[o].n]
                /\ pconns[j].closedBy = {})
          /\ (calls[o].pc = "done" =>
                pconns[j].c.closes = 1 /\ pconns[j].closedBy = {o}))
  /\ [][calls' # calls => UNCHANGED <<hrsVars, conns>>]_vars

\* all calls have returned; the first connection was read by its owner and
\* closed while another call was under way, and the reader still holds its
\* own connection, open, at offset 1
C17_Witness ==
  /\ \A i \in Callers : calls[i].pc = "done"
  /\ rc > 0 /\ offset = 1 /\ conns[rc] = [NewConn(0) EXCEPT !.pos = 1]
  /\ Len(pconns) = MaxCallers
  /\ \A j \in DOMAIN pconns :
        pconns[j].readBy = {pconns[j].owner} /\ pconns[j].c.closes = 1
  /\ pconns[1].during # {}

====
